---- MODULE Spec2Model ----
(***************************************************************************)
(* A model of flask_navigate: the page-number generator Pager, the         *)
(* pagination status PageState, and the two request-parsing helpers of     *)
(* Navigator (args, _parse_request_argument).                              *)
(*                                                                         *)
(* Python's None is the empty tuple <<>> and a present value v is the      *)
(* one-element tuple <<v>>, so that optional values are comparable.        *)
(***************************************************************************)
EXTENDS Integers, Sequences, FiniteSets

\* ---------------------------------------------------------------- bounds
MaxPage == 5
MaxPages == 5
MaxThreshold == 2
MaxPerPage == 3
MaxTotal == 6
MaxNegTotal == 2

\* ------------------------------------------------------------- optionals
None == <<>>
Some(v) == <<v>>
Opt(S) == {None} \cup {Some(v) : v \in S}

VARIABLES
  state,        \* None, or Some(the PageState object)
  raised,       \* "none", or the exception PageState.__init__ ended in
  ctor_args,    \* None, or Some(the per_page and total PageState.__init__ got)
  pager,        \* None, or Some(the Pager object)
  origin,       \* "none" | "direct" (Pager(...)) | "call" (state(...))
  pager_args,   \* the thresholds handed to Pager.__init__, and the page/pages
  pc,           \* position of the generator Pager.__iter__
  num,          \* loop variable of Pager.__iter__
  ellipsis_at,  \* last yielded page number
  out,          \* what the generator has yielded so far
  request_args, \* request.args.items(multi=True): (key, value) pairs
  view_args,    \* request.view_args.items(): (key, value) pairs, keys distinct
  args,         \* the dict Navigator.args builds
  args_i,       \* how many pairs the loop of Navigator.args has taken
  args_pc,      \* position of Navigator.args
  raw,          \* None, or Some(the string of the request argument)
  default,      \* the default given to _parse_request_argument
  value,        \* the local variable value of _parse_request_argument
  exc,          \* the exception in flight in _parse_request_argument
  parse_pc      \* position of _parse_request_argument

pageVars == <<state, raised, ctor_args, pager, origin, pager_args, pc, num,
              ellipsis_at, out>>
navVars == <<request_args, view_args, args, args_i, args_pc, raw, default,
             value, exc, parse_pc>>
vars == <<pageVars, navVars>>

\* ------------------------------------------------------------------ Pager
\* class attributes, the defaults of the thresholds
Pager_left_threshold == 2
Pager_threshold == 0
Pager_right_threshold == 1

\* Pager.__init__: an argument that is not None shadows the class attribute
PagerInit(page, pages, left_threshold, threshold, right_threshold) ==
  [page |-> page,
   pages |-> pages,
   threshold |-> IF threshold # None THEN threshold[1] ELSE Pager_threshold,
   left_threshold |-> IF left_threshold # None THEN left_threshold[1]
                      ELSE Pager_left_threshold,
   right_threshold |-> IF right_threshold # None THEN right_threshold[1]
                       ELSE Pager_right_threshold]

Abs(x) == IF x < 0 THEN -x ELSE x

\* mutant: the right threshold compared with <= (one trailing page too many)
ShownRightOffByOne(self, n) ==
  \/ n <= self.left_threshold
  \/ Abs(self.page - n) <= self.threshold
  \/ (self.pages - n) <= self.right_threshold

\* mutant: the distance to the current page taken without abs()
ShownNoAbs(self, n) ==
  \/ n <= self.left_threshold
  \/ (self.page - n) <= self.threshold
  \/ (self.pages - n) < self.right_threshold

\* the condition of the loop body of Pager.__iter__
Shown(self, n) ==
  \/ n <= self.left_threshold
  \/ Abs(self.page - n) <= self.threshold
  \/ (self.pages - n) < self.right_threshold

\* mutant: the successor forgotten (ellipsis_at != num)
NeedsEllipsisNoSuccessor(last, n) == last # n

\* the test that decides whether None is yielded before a number
NeedsEllipsis(last, n) == last + 1 # n

\* Pager(page, pages, left_threshold, threshold, right_threshold), and the
\* start of its iteration
PagerNew ==
  /\ origin = "none"
  /\ state = None /\ raised = "none"
  /\ \E page \in 1..MaxPage, pages \in 0..MaxPages,
        l \in Opt(0..MaxThreshold), t \in Opt(0..MaxThreshold),
        r \in Opt(0..MaxThreshold) :
       /\ pager' = Some(PagerInit(page, pages, l, t, r))
       /\ pager_args' = [page |-> page, pages |-> pages, left |-> l,
                         center |-> t, right |-> r]
  /\ origin' = "direct"
  /\ pc' = "loop" /\ num' = 1 /\ ellipsis_at' = 0 /\ out' = <<>>
  /\ UNCHANGED navVars
  /\ UNCHANGED <<state, raised, ctor_args>>

\* one turn of the loop for a number that is not shown
LoopSkip ==
  /\ pc = "loop"
  /\ num <= pager[1].pages
  /\ ~Shown(pager[1], num)
  /\ num' = num + 1
  /\ UNCHANGED navVars
  /\ UNCHANGED <<state, raised, ctor_args, pager, origin, pager_args, pc,
                 ellipsis_at, out>>

\* yield None
YieldNone ==
  /\ pc = "loop"
  /\ num <= pager[1].pages
  /\ Shown(pager[1], num)
  /\ NeedsEllipsis(ellipsis_at, num)
  /\ out' = Append(out, None)
  /\ pc' = "yield_num"
  /\ UNCHANGED navVars
  /\ UNCHANGED <<state, raised, ctor_args, pager, origin, pager_args, num,
                 ellipsis_at>>

\* yield num; ellipsis_at = num
YieldNum ==
  /\ \/ pc = "yield_num"
     \/ /\ pc = "loop"
        /\ num <= pager[1].pages
        /\ Shown(pager[1], num)
        /\ ~NeedsEllipsis(ellipsis_at, num)
  /\ out' = Append(out, Some(num))
  /\ ellipsis_at' = num
  /\ num' = num + 1
  /\ pc' = "loop"
  /\ UNCHANGED navVars
  /\ UNCHANGED <<state, raised, ctor_args, pager, origin, pager_args>>

\* mutant: a marker for the pages skipped after the last yielded number
StopTrailing ==
  /\ pc = "loop"
  /\ num > pager[1].pages
  /\ pc' = "done"
  /\ out' = IF ellipsis_at < pager[1].pages THEN Append(out, None) ELSE out
  /\ UNCHANGED navVars
  /\ UNCHANGED <<state, raised, ctor_args, pager, origin, pager_args, num,
                 ellipsis_at>>

\* the range is exhausted: raise StopIteration(), which ends a generator on
\* the interpreters setup.py names (Python 2.6, 2.7)
Stop ==
  /\ pc = "loop"
  /\ num > pager[1].pages
  /\ pc' = "done"
  /\ UNCHANGED navVars
  /\ UNCHANGED <<state, raised, ctor_args, pager, origin, pager_args, num,
                 ellipsis_at, out>>

\* -------------------------------------------------------------- PageState
\* mutant: integer division, total / per_page without float() and ceil()
TotalPagesFloor(total, per_page) == total \div per_page

\* int(ceil(total / float(per_page))), per_page # 0
TotalPages(total, per_page) ==
  IF per_page > 0
  THEN IF total % per_page = 0 THEN total \div per_page
       ELSE (total \div per_page) + 1
  ELSE IF (-total) % (-per_page) = 0 THEN (-total) \div (-per_page)
       ELSE ((-total) \div (-per_page)) + 1

\* mutant: has_next with <=
has_next_inclusive(self) == self.page <= self.total_pages

has_next(self) == self.page < self.total_pages

has_prev(self) == self.page > 1

next_page(self) == IF has_next(self) THEN Some(self.page + 1) ELSE None

prev_page(self) == IF has_prev(self) THEN Some(self.page - 1) ELSE None

\* PageState(page, per_page, total, pager_class=Pager)
PageStateNew ==
  /\ state = None /\ raised = "none" /\ origin = "none"
  /\ \E page \in 1..MaxPage, per_page \in 0..MaxPerPage,
        total \in (-MaxNegTotal)..MaxTotal :
       /\ ctor_args' = Some([per_page |-> per_page, total |-> total])
       /\ IF per_page = 0
          THEN /\ raised' = "ZeroDivisionError"
               /\ state' = None
          ELSE /\ raised' = "none"
               /\ state' = Some([page |-> page, per_page |-> per_page,
                                 total |-> total,
                                 total_pages |-> TotalPages(total, per_page)])
  /\ UNCHANGED navVars
  /\ UNCHANGED <<pager, origin, pager_args, pc, num, ellipsis_at, out>>

\* state.page = p, the reassignment the tests make; it happens between the
\* uses of the state, never inside list(state()), which runs the generator
\* to its end
SetPage ==
  /\ state # None
  /\ pc \in {"idle", "done"}
  /\ \E p \in 0..(MaxPage + 1) :
       /\ p # state[1].page
       /\ state' = Some([state[1] EXCEPT !.page = p])
  /\ UNCHANGED navVars
  /\ UNCHANGED <<raised, ctor_args, pager, origin, pager_args, pc, num,
                 ellipsis_at, out>>

\* mutant: threshold and left_threshold handed over in the wrong order
CallPagerSwapped(self, left_threshold, threshold, right_threshold) ==
  PagerInit(self.page, self.total_pages, threshold, left_threshold,
            right_threshold)

\* PageState.__call__: the arguments go to pager_class in this order
CallPager(self, left_threshold, threshold, right_threshold) ==
  PagerInit(self.page, self.total_pages, left_threshold, threshold,
            right_threshold)

\* state(left_threshold, threshold, right_threshold), and the start of the
\* iteration of the pager it returns
Call ==
  /\ state # None
  /\ origin = "none"
  /\ \E l \in Opt(0..MaxThreshold), t \in Opt(0..MaxThreshold),
        r \in Opt(0..MaxThreshold) :
       /\ pager' = Some(CallPager(state[1], l, t, r))
       /\ pager_args' = [page |-> state[1].page,
                         pages |-> state[1].total_pages,
                         left |-> l, center |-> t, right |-> r]
  /\ origin' = "call"
  /\ pc' = "loop" /\ num' = 1 /\ ellipsis_at' = 0 /\ out' = <<>>
  /\ UNCHANGED navVars
  /\ UNCHANGED <<state, raised, ctor_args>>

\* ----------------------------------------------------------- specification
NoArgs == [page |-> 0, pages |-> 0, left |-> None, center |-> None,
           right |-> None]

PageIdle ==
  /\ state = None /\ raised = "none" /\ ctor_args = None
  /\ pager = None /\ origin = "none" /\ pager_args = NoArgs
  /\ pc = "idle" /\ num = 0 /\ ellipsis_at = 0 /\ out = <<>>

NavIdle ==
  /\ request_args = <<>> /\ view_args = <<>> /\ args = <<>>
  /\ args_i = 0 /\ args_pc = "idle"
  /\ raw = None /\ default = None /\ value = None /\ exc = "none"
  /\ parse_pc = "idle"

Init == PageIdle /\ NavIdle

Next ==
  \/ PagerNew
  \/ LoopSkip
  \/ YieldNone
  \/ YieldNum
  \/ Stop
  \/ PageStateNew
  \/ SetPage
  \/ Call

Spec == Init /\ [][Next]_vars

\* --------------------------------------------------------- Navigator.args
Keys == {"page", "foo", "bar"}
Values == {"42", "3"}
MaxRequestArgs == 2
MaxViewArgs == 1

SeqsUpTo(S, n) == UNION {[1..k -> S] : k \in 0..n}

\* a MultiDict gives every (key, value) pair of the query string
RequestItems == SeqsUpTo(Keys \X Values, MaxRequestArgs)

\* view_args is a dict: its keys are distinct
ViewItems ==
  {v \in SeqsUpTo(Keys \X Values, MaxViewArgs) :
     \A i \in DOMAIN v, j \in DOMAIN v : i # j => v[i][1] # v[j][1]}

\* a value of the dict args: a string, or a list of strings
Scalar(v) == [list |-> FALSE, items |-> <<v>>]
List(vs) == [list |-> TRUE, items |-> vs]

\* d[k] = v
DictSet(d, k, v) == [x \in (DOMAIN d) \cup {k} |-> IF x = k THEN v ELSE d[x]]

\* mutant: a repeated key overwrites the value stored for it
ArgsPutOverwrite(d, k, v) ==
  IF k = "page" THEN d ELSE DictSet(d, k, Scalar(v))

\* the body of the loop of Navigator.args for the pair (k, v)
ArgsPut(d, k, v) ==
  IF k = "page" THEN d
  ELSE IF k \notin DOMAIN d THEN DictSet(d, k, Scalar(v))
  ELSE IF ~d[k].list THEN DictSet(d, k, List(<<d[k].items[1], v>>))
  ELSE DictSet(d, k, List(Append(d[k].items, v)))

\* list(request_args) + list(view_args)
AllItems == request_args \o view_args

\* one turn of the loop
ArgsStep ==
  /\ args_pc = "loop"
  /\ args_i < Len(AllItems)
  /\ args' = ArgsPut(args, AllItems[args_i + 1][1], AllItems[args_i + 1][2])
  /\ args_i' = args_i + 1
  /\ UNCHANGED pageVars
  /\ UNCHANGED <<request_args, view_args, args_pc, raw, default, value, exc,
                 parse_pc>>

\* return args
ArgsReturn ==
  /\ args_pc = "loop"
  /\ args_i = Len(AllItems)
  /\ args_pc' = "returned"
  /\ UNCHANGED pageVars
  /\ UNCHANGED <<request_args, view_args, args, args_i, raw, default, value,
                 exc, parse_pc>>

\* a request with its query string and view arguments; args = {}
InitArgs ==
  /\ PageIdle
  /\ request_args \in RequestItems
  /\ view_args \in ViewItems
  /\ args = <<>> /\ args_i = 0 /\ args_pc = "loop"
  /\ raw = None /\ default = None /\ value = None /\ exc = "none"
  /\ parse_pc = "idle"

NextArgs ==
  \/ ArgsStep
  \/ ArgsReturn

SpecArgs == InitArgs /\ [][NextArgs]_vars

\* ---------------------------------------- Navigator._parse_request_argument
\* a string is the sequence of its characters
Chars == {"-", "+", " ", "0", "1", "7", "b"}
MaxRawLen == 3
RawStrings == SeqsUpTo(Chars, MaxRawLen)
Defaults == {None, Some(1), Some(42)}

IsSpace(c) == c = " "
IsDigit(c) == c \in {"0", "1", "2", "3", "4", "5", "6", "7", "8", "9"}

DigitValue(c) ==
  CASE c = "0" -> 0 [] c = "1" -> 1 [] c = "2" -> 2 [] c = "3" -> 3
    [] c = "4" -> 4 [] c = "5" -> 5 [] c = "6" -> 6 [] c = "7" -> 7
    [] c = "8" -> 8 [] c = "9" -> 9

RECURSIVE LStrip(_)
LStrip(s) == IF s # <<>> /\ IsSpace(Head(s)) THEN LStrip(Tail(s)) ELSE s

RECURSIVE RStrip(_)
RStrip(s) ==
  IF s # <<>> /\ IsSpace(s[Len(s)]) THEN RStrip(SubSeq(s, 1, Len(s) - 1))
  ELSE s

RECURSIVE DigitsValue(_, _)
DigitsValue(s, acc) ==
  IF s = <<>> THEN acc
  ELSE DigitsValue(Tail(s), acc * 10 + DigitValue(Head(s)))

\* int(s) for a string s: surrounding whitespace is dropped, one sign may
\* lead, at least one digit follows and nothing else. None is ValueError.
IntOfString(s) ==
  LET t == RStrip(LStrip(s))
      signed == t # <<>> /\ Head(t) \in {"+", "-"}
      digits == IF signed THEN Tail(t) ELSE t
  IN IF digits = <<>> \/ \E i \in DOMAIN digits : ~IsDigit(digits[i])
     THEN None
     ELSE IF signed /\ Head(t) = "-" THEN Some(-DigitsValue(digits, 0))
     ELSE Some(DigitsValue(digits, 0))

\* mutant: zero let through (value < 0)
BoundedNonNegative(v, d) == IF v[1] < 0 THEN d ELSE v

\* if value < 1: value = default
Bounded(v, d) == IF v[1] < 1 THEN d ELSE v

\* value = int(request.args.get(name, default))
ParseConvert ==
  /\ parse_pc = "call"
  /\ IF raw # None
     THEN IF IntOfString(raw[1]) = None
          THEN exc' = "ValueError" /\ parse_pc' = "except" /\ value' = value
          ELSE /\ value' = IntOfString(raw[1])
               /\ parse_pc' = "check" /\ exc' = exc
     ELSE IF default = None
          THEN exc' = "TypeError" /\ parse_pc' = "except" /\ value' = value
          ELSE value' = default /\ parse_pc' = "check" /\ exc' = exc
  /\ UNCHANGED pageVars
  /\ UNCHANGED <<request_args, view_args, args, args_i, args_pc, raw, default>>

\* if value < 1: value = default
ParseCheck ==
  /\ parse_pc = "check"
  /\ value' = Bounded(value, default)
  /\ parse_pc' = "return"
  /\ UNCHANGED pageVars
  /\ UNCHANGED <<request_args, view_args, args, args_i, args_pc, raw, default,
                 exc>>

\* except (TypeError, ValueError): value = default
ParseExcept ==
  /\ parse_pc = "except"
  /\ exc \in {"TypeError", "ValueError"}
  /\ value' = default
  /\ exc' = "none"
  /\ parse_pc' = "return"
  /\ UNCHANGED pageVars
  /\ UNCHANGED <<request_args, view_args, args, args_i, args_pc, raw, default>>

\* return value
ParseReturn ==
  /\ parse_pc = "return"
  /\ parse_pc' = "returned"
  /\ UNCHANGED pageVars
  /\ UNCHANGED <<request_args, view_args, args, args_i, args_pc, raw, default,
                 value, exc>>

\* a request whose argument is absent or is some string, and a default
InitParse ==
  /\ PageIdle
  /\ request_args = <<>> /\ view_args = <<>> /\ args = <<>>
  /\ args_i = 0 /\ args_pc = "idle"
  /\ raw \in Opt(RawStrings)
  /\ default \in Defaults
  /\ value = None /\ exc = "none" /\ parse_pc = "call"

NextParse ==
  \/ ParseConvert
  \/ ParseCheck
  \/ ParseExcept
  \/ ParseReturn

SpecParse == InitParse /\ [][NextParse]_vars

\* ------------------------------------------------------------------ claims
IsNumber(e) == e # None

\* the page numbers of a yielded sequence, gap markers removed
Numbers(seq) ==
  LET kept == SelectSeq(seq, IsNumber)
  IN [i \in 1..Len(kept) |-> kept[i][1]]

StrictlyIncreasing(ns) ==
  \A i \in 1..Len(ns), j \in 1..Len(ns) : i < j => ns[i] < ns[j]

Range(f) == {f[i] : i \in DOMAIN f}

\* the window rule of the specification, for thresholds l, c, r
InWindow(n, page, pages, l, c, r) ==
  \/ n <= l
  \/ (page - n <= c /\ n - page <= c)
  \/ pages - n < r

Window(page, pages, l, c, r) ==
  {n \in 1..pages : InWindow(n, page, pages, l, c, r)}

\* an omitted threshold takes the default d
OrDefault(x, d) == IF x = None THEN d ELSE x[1]

ArgLeft == OrDefault(pager_args.left, 2)
ArgCenter == OrDefault(pager_args.center, 0)
ArgRight == OrDefault(pager_args.right, 1)

\* the window of the pager that is being iterated
ArgWindow ==
  Window(pager_args.page, pager_args.pages, ArgLeft, ArgCenter, ArgRight)

InContract == pager # None /\ pager_args.page >= 1 /\ pager_args.pages >= 0

\* C1: with the markers removed, what the Pager yields is strictly
\* increasing and within the window at every moment, and when the iteration
\* has ended it is exactly the window {n in 1..pages : n <= left or
\* |page - n| <= center or pages - n < right}; pages = 0 yields nothing.
C1_YieldsExactlyWindow ==
  InContract =>
    LET ns == Numbers(out)
    IN /\ StrictlyIncreasing(ns)
       /\ Range(ns) \subseteq ArgWindow
       /\ Range(ns) \subseteq 1..pager_args.pages
       /\ pc = "done" => Range(ns) = ArgWindow
       /\ (pc = "done" /\ pager_args.pages = 0) => out = <<>>

C1_Witness ==
  /\ origin = "direct" /\ pc = "done"
  /\ pager_args.page = 5 /\ pager_args.pages = 5
  /\ Numbers(out) = <<1, 2, 5>>

\* C2: between two page numbers a < b yielded one after the other there is
\* exactly one gap marker when b > a + 1 and none when b = a + 1.
C2_OneMarkerPerGap ==
  InContract =>
    \A i \in DOMAIN out, j \in DOMAIN out :
      (/\ i < j
       /\ out[i] # None /\ out[j] # None
       /\ \A k \in (i + 1)..(j - 1) : out[k] = None)
      => /\ out[i][1] < out[j][1]
         /\ out[j][1] > out[i][1] + 1 => j = i + 2
         /\ out[j][1] = out[i][1] + 1 => j = i + 1

C2_Witness ==
  /\ pc = "done"
  /\ out = <<Some(1), Some(2), None, Some(5)>>

NoTwoMarkers ==
  \A i \in DOMAIN out : (i < Len(out) /\ out[i] = None) => out[i + 1] # None

\* C3 as stated: no two consecutive markers, and no marker is the first or
\* the last element of the sequence.
C3_Original ==
  InContract =>
    /\ NoTwoMarkers
    /\ out # <<>> => out[1] # None
    /\ (pc = "done" /\ out # <<>>) => out[Len(out)] # None

\* C3 amended: no two consecutive markers, no marker is the last element,
\* and a marker is the first element exactly when page 1 is not shown (the
\* smallest yielded number is greater than 1).
C3_MarkerPlacement ==
  InContract =>
    /\ NoTwoMarkers
    /\ (pc = "done" /\ out # <<>>) =>
         /\ out[Len(out)] # None
         /\ out[1] = None <=> Numbers(out)[1] > 1
    /\ (out # <<>> /\ out[1] = None) => 1 \notin ArgWindow

C3_Witness ==
  /\ pc = "done"
  /\ out = <<None, Some(3), None, Some(5)>>

AllZero ==
  /\ pager_args.left = Some(0)
  /\ pager_args.center = Some(0)
  /\ pager_args.right = Some(0)

InRange == 1 <= pager_args.page /\ pager_args.page <= pager_args.pages

\* C4 as stated: with all thresholds zero and 1 <= page <= pages the Pager
\* yields page, a marker before it if page > 1 and a marker after it if
\* page < pages.
C4_Original ==
  (pager # None /\ pc = "done" /\ AllZero /\ InRange) =>
    out = (IF pager_args.page > 1 THEN <<None>> ELSE <<>>)
          \o <<Some(pager_args.page)>>
          \o (IF pager_args.page < pager_args.pages THEN <<None>> ELSE <<>>)

\* C4 amended: with all thresholds zero and 1 <= page <= pages the Pager
\* yields page, a marker before it if page > 1, and nothing after it.
C4_ZeroThresholds ==
  (pager # None /\ pc = "done" /\ AllZero /\ InRange) =>
    out = (IF pager_args.page > 1 THEN <<None>> ELSE <<>>)
          \o <<Some(pager_args.page)>>

C4_Witness ==
  /\ pc = "done" /\ AllZero
  /\ pager_args.page = 3 /\ pager_args.pages = 5
  /\ Len(out) = 2

\* C5: for total >= 0 and per_page >= 1 the total_pages of a constructed
\* PageState is the least k >= 0 with k * per_page >= total.
C5_TotalPagesIsCeiling ==
  (state # None /\ state[1].total >= 0 /\ state[1].per_page >= 1) =>
    LET k == state[1].total_pages
    IN /\ k >= 0
       /\ k * state[1].per_page >= state[1].total
       /\ k > 0 => (k - 1) * state[1].per_page < state[1].total

C5_Witness ==
  /\ state # None
  /\ state[1].total = 5 /\ state[1].per_page = 2 /\ state[1].total_pages = 3

\* C6: in every state of a PageState has_next is page < total_pages,
\* has_prev is page > 1, next_page is page + 1 when has_next and None
\* otherwise, prev_page is page - 1 when has_prev and None otherwise.
C6_Neighbours ==
  state # None =>
    LET s == state[1]
    IN /\ has_next(s) <=> s.page < s.total_pages
       /\ has_prev(s) <=> s.page > 1
       /\ next_page(s) = IF s.page < s.total_pages THEN <<s.page + 1>>
                         ELSE <<>>
       /\ prev_page(s) = IF s.page > 1 THEN <<s.page - 1>> ELSE <<>>

\* page = total_pages after a reassignment that moved it
C6_Witness ==
  /\ state # None /\ pc = "done"
  /\ state[1].page # pager_args.page
  /\ state[1].page = state[1].total_pages /\ state[1].page > 1
  /\ next_page(state[1]) = None /\ prev_page(state[1]) # None

\* C7 as stated: constructing a PageState with per_page = 0 or total < 0 ends
\* in an error and yields no PageState; total_pages of every constructed
\* PageState is >= 0.
C7_FailsFast ==
  /\ (/\ ctor_args # None
      /\ (ctor_args[1].per_page = 0 \/ ctor_args[1].total < 0))
     => (raised # "none" /\ state = None)
  /\ state # None => state[1].total_pages >= 0

\* the yielded sequence seq is the rendering of the window for page, pages
\* and thresholds l, c, r: its numbers are the window in increasing order,
\* and a single marker stands before each number that does not follow its
\* predecessor (or 0) directly, and nowhere else
NumberBefore(seq, i) ==
  IF i > 1 /\ seq[i - 1] # None THEN seq[i - 1][1]
  ELSE IF i > 2 /\ seq[i - 2] # None THEN seq[i - 2][1]
  ELSE 0

IsRendering(seq, page, pages, l, c, r) ==
  /\ StrictlyIncreasing(Numbers(seq))
  /\ Range(Numbers(seq)) = Window(page, pages, l, c, r)
  /\ \A i \in DOMAIN seq :
       IF seq[i] = None
       THEN i < Len(seq) /\ seq[i + 1] # None
       ELSE (i > 1 /\ seq[i - 1] = None)
              <=> (NumberBefore(seq, i) + 1 # seq[i][1])

\* C10: state(left, center, right) yields the sequence of the Pager for the
\* state's page and total_pages in which an omitted threshold is 2, 0, 1
\* and a supplied one, 0 included, is itself.
C10_CallBuildsPager ==
  (origin = "call" /\ pc = "done") =>
    /\ pager_args.pages = state[1].total_pages
    /\ IsRendering(out, pager_args.page, state[1].total_pages,
                   ArgLeft, ArgCenter, ArgRight)
    /\ (pager_args.page = 2 /\ state[1].total_pages = 5) =>
         /\ (/\ pager_args.left = None /\ pager_args.center = None
             /\ pager_args.right = None)
            => out = <<Some(1), Some(2), None, Some(5)>>
         /\ (/\ pager_args.left = Some(1) /\ pager_args.center = Some(0)
             /\ pager_args.right = Some(0))
            => out = <<Some(1), Some(2)>>

C10_Witness ==
  /\ origin = "call" /\ pc = "done"
  /\ pager_args.page = 2 /\ state[1].total_pages = 5
  /\ pager_args.left = Some(1) /\ pager_args.center = Some(0)
  /\ pager_args.right = Some(0)
  /\ out = <<Some(1), Some(2)>>

\* the values given for key k among the first n pairs, in order
ValuesOf(k, n) ==
  LET HasKey(p) == p[1] = k
      sel == SelectSeq(SubSeq(AllItems, 1, n), HasKey)
  IN [i \in 1..Len(sel) |-> sel[i][2]]

\* C8: args never holds the key page; it holds every other key that
\* occurred, mapped to its value when the key occurred once and to the list
\* of its values in order of occurrence when it occurred twice or more.
C8_ArgsMerge ==
  args_pc # "idle" =>
    /\ "page" \notin DOMAIN args
    /\ DOMAIN args = {AllItems[i][1] : i \in 1..args_i} \ {"page"}
    /\ \A k \in DOMAIN args :
         LET vs == ValuesOf(k, args_i)
         IN args[k] = IF Len(vs) = 1
                      THEN [list |-> FALSE, items |-> vs]
                      ELSE [list |-> TRUE, items |-> vs]

C8_Witness ==
  /\ args_pc = "returned"
  /\ Len(request_args) = 2 /\ Len(view_args) = 1
  /\ DOMAIN args = {"foo"}
  /\ args["foo"] = [list |-> TRUE, items |-> <<"42", "3", "42">>]

DigitChar(d) ==
  <<"0", "1", "2", "3", "4", "5", "6", "7", "8", "9">>[d + 1]

\* the decimal numeral of n >= 0
RECURSIVE Decimal(_)
Decimal(n) ==
  IF n < 10 THEN <<DigitChar(n)>>
  ELSE Decimal(n \div 10) \o <<DigitChar(n % 10)>>

RECURSIVE DropZeros(_)
DropZeros(d) == IF d # <<>> /\ Head(d) = "0" THEN DropZeros(Tail(d)) ELSE d

Spaces(n) == [i \in 1..n |-> " "]

\* the ways to read s as an integer literal: <<sign, digits>> with
\* s = spaces, sign, digits, spaces
Literals(s) ==
  {l \in {<<sg, SubSeq(s, a, b)>> :
            sg \in {<<>>, <<"+">>, <<"-">>}, a \in 1..Len(s), b \in 1..Len(s)} :
     /\ l[2] # <<>>
     /\ \A i \in DOMAIN l[2] : l[2][i] \in {"0", "1", "7"}
     /\ \E i \in 0..Len(s), j \in 0..Len(s) :
          s = Spaces(i) \o l[1] \o l[2] \o Spaces(j)}

\* C9: _parse_request_argument returns without raising; for an argument
\* that is present it returns the argument's integer value when the
\* argument is an integer literal of value >= 1, and the default otherwise.
C9_BoundedParse ==
  parse_pc = "returned" =>
    /\ exc = "none"
    /\ raw # None =>
         /\ \A l \in Literals(raw[1]) :
              IF l[1] # <<"-">> /\ DropZeros(l[2]) # <<>>
              THEN /\ value # None
                   /\ value[1] >= 1
                   /\ Decimal(value[1]) = DropZeros(l[2])
              ELSE value = default
         /\ Literals(raw[1]) = {} => value = default

\* " 17" with default None gives 17
C9_Witness ==
  /\ parse_pc = "returned"
  /\ raw = Some(<<" ", "1", "7">>) /\ default = None
  /\ value = Some(17)
====
